---- MODULE Spec2Model ----
(***************************************************************************)
(* Monitoring engine, alert manager and task scheduler of the SQL          *)
(* automation agent (src/monitoring_system.py, src/scheduler.py).          *)
(*                                                                         *)
(* Two MonitoringSystem objects exist in a running agent: the one the      *)
(* agent builds (src/main.py:83) and the one every TaskScheduler builds    *)
(* for itself (src/scheduler.py:44).  Engine state is therefore indexed    *)
(* by the owning object, "agent" or "sched".                               *)
(*                                                                         *)
(* Time is the wall clock in whole seconds (int(time.time())); datetime    *)
(* stamps are the same clock.  Metric values are whole numbers; the ratio  *)
(* tests of _determine_severity are done by cross-multiplication, which    *)
(* agrees with the float division for values of this size.  Alert.message  *)
(* is a string derived from the other fields and is left out.              *)
(***************************************************************************)
EXTENDS Integers, Sequences, FiniteSets, TLC

\* ------------------------------------------------------------------ bounds
MaxClock == 1
MaxAlerts == 3
MaxSamples == 3
MaxThreads == 2
MaxChecks == 1
MaxHistSamples == 1002
MaxSevSamples == 1
MaxRuns == 6
MaxCheckRuns == 2
MaxArmed == 2
MaxFewSamples == 1
MaxPollers == 1
DayLength == 1
DaysPerMonth == 2
MonthsPerYear == 2
MaxDays == 4
MaxMonthlyRuns == 3
MaxStopRuns == 1
MaxRunners == 2

\* ------------------------------------------------------- program constants
HistoryCapacity == 1000
ThConnectionCount == 100
ThCpuUsage == 80
ThMemoryUsage == 85
ThDiskUsage == 90
ThSlowQueries == 10
ErrorCeiling == 5

NULL == "None"
Engines == {"agent", "sched"}

VARIABLES
    now,                \* time.time(), whole seconds
    agent,              \* SQLAutomationAgent: "initialized", "running" (self.running) or "stopped"
    monitoring_active,  \* [Engines -> BOOLEAN]
    mon_threads,        \* [Engines -> Seq(pc)]: every worker ever started
    metrics_history,    \* [Engines -> Seq(snapshot serial)]
    samples_taken,      \* [Engines -> Nat]: successful collections so far
    active_alerts,      \* [Engines -> [alert id -> index in alert_history]]
    alert_history,      \* [Engines -> Seq(Alert)]
    email_sink,         \* config.email_config and the SMTP server behind it
    outbox,             \* [Engines -> Seq([id, delivered])]: calls of _send_alert_email
    custom_checks,      \* [Engines -> Seq(check callable)]
    trace,              \* [Engines -> Seq(snapshot)]: snapshots evaluated
    scheduler_active,   \* TaskScheduler.scheduler_active
    sched_threads,      \* Seq([pc, pending]): every polling thread ever started
    scheduled_tasks,    \* [task id -> ScheduledTask]
    jobs,               \* [task id -> armed entries of the schedule library tagged with it]
    runners,            \* Seq([task, pc, reg]): run-now threads inside _execute_task
    last                \* the operation that ran last, and what it returned

mon_vars == <<monitoring_active, mon_threads, metrics_history, samples_taken,
              active_alerts, alert_history, outbox, custom_checks, trace>>
sched_vars == <<scheduler_active, sched_threads, scheduled_tasks, jobs, runners>>
prog_vars == <<now, agent, email_sink, mon_vars, sched_vars>>
vars == <<now, agent, email_sink, mon_vars, sched_vars, last>>

\* ------------------------------------------------------------ AlertManager

\* config.alert_thresholds
alert_thresholds ==
    [connection_count |-> ThConnectionCount, cpu_usage |-> ThCpuUsage,
     memory_usage |-> ThMemoryUsage, disk_usage |-> ThDiskUsage,
     slow_queries_count |-> ThSlowQueries]

\* the (metric, category) rows of _check_thresholds, in their order
checks ==
    << <<"connection_count", "connection">>, <<"cpu_usage", "performance">>,
       <<"memory_usage", "performance">>, <<"disk_usage", "disk">>,
       <<"slow_queries_count", "query">> >>

TrackedMetrics == {checks[i][1] : i \in 1..Len(checks)}

\* An AlertManager value: the dict of active alerts (id -> the Alert object,
\* here its position in alert_history, where the same object lives) and the
\* history list.
AM(e) ==
    [active_alerts |-> active_alerts[e], alert_history |-> alert_history[e],
     email_config |-> email_sink, outbox |-> outbox[e]]

\* f"{category}_{metric_name}_{int(time.time())}"
alert_id(category, metric_name, t) == <<category, metric_name, t>>

\* the alert objects the active dict holds whose metric_name is m
ActiveFor(am, m) ==
    {id \in DOMAIN am.active_alerts :
        am.alert_history[am.active_alerts[id]].metric_name = m}

\* _send_alert_email: the whole send sits in try/except Exception, so a send
\* that fails is logged and nothing leaves the method
send_alert_email(am, id) ==
    Append(am.outbox, [id |-> id, delivered |-> am.email_config = "delivers"])

\* create_alert with the send raising out of it before the alert is stored
create_alert_send_first(am, category, metric_name, current_value, threshold_value, severity, origin, t) ==
    LET id == alert_id(category, metric_name, t)
        alert == [id |-> id, timestamp |-> t, severity |-> severity,
                  category |-> category, metric_name |-> metric_name,
                  current_value |-> current_value,
                  threshold_value |-> threshold_value,
                  resolved |-> FALSE, resolved_timestamp |-> NULL,
                  origin |-> origin]
        hist == Append(am.alert_history, alert)
    IN  IF am.email_config = "fails"
        THEN [am EXCEPT !.outbox = send_alert_email(am, id)]
        ELSE [am EXCEPT
                 !.active_alerts =
                    [k \in DOMAIN am.active_alerts \cup {id} |->
                        IF k = id THEN Len(hist) ELSE am.active_alerts[k]],
                 !.alert_history = hist,
                 !.outbox = IF am.email_config = "unconfigured" THEN am.outbox
                            ELSE send_alert_email(am, id)]

create_alert(am, category, metric_name, current_value, threshold_value, severity, origin, t) ==
    LET id == alert_id(category, metric_name, t)
        alert == [id |-> id, timestamp |-> t, severity |-> severity,
                  category |-> category, metric_name |-> metric_name,
                  current_value |-> current_value,
                  threshold_value |-> threshold_value,
                  resolved |-> FALSE, resolved_timestamp |-> NULL,
                  origin |-> origin]
        hist == Append(am.alert_history, alert)
    IN  [am EXCEPT
            !.active_alerts =
               [k \in DOMAIN am.active_alerts \cup {id} |->
                   IF k = id THEN Len(hist) ELSE am.active_alerts[k]],
            !.alert_history = hist,
            \* if self.email_config.username and self.email_config.to_emails
            !.outbox = IF am.email_config = "unconfigured" THEN am.outbox
                       ELSE send_alert_email(am, id)]

\* resolve_alert that marks the alert and leaves it in the active dict
resolve_alert_kept(am, id, t) ==
    IF id \in DOMAIN am.active_alerts
    THEN LET i == am.active_alerts[id]
         IN  [am EXCEPT
                 !.alert_history =
                    [am.alert_history EXCEPT ![i].resolved = TRUE,
                                             ![i].resolved_timestamp = t]]
    ELSE am

\* resolve_alert: the alert object of the active dict is marked and stamped
\* and its key deleted; an id the dict does not hold changes nothing
resolve_alert(am, id, t) ==
    IF id \in DOMAIN am.active_alerts
    THEN LET i == am.active_alerts[id]
         IN  [am EXCEPT
                 !.active_alerts =
                    [k \in DOMAIN am.active_alerts \ {id} |-> am.active_alerts[k]],
                 !.alert_history =
                    [am.alert_history EXCEPT ![i].resolved = TRUE,
                                             ![i].resolved_timestamp = t]]
    ELSE am

\* -------------------------------------------------------- MonitoringSystem

\* determine_severity with the tier bounds exclusive
determine_severity_exclusive(current_value, threshold) ==
    IF current_value > 2 * threshold THEN "critical"
    ELSE IF 2 * current_value > 3 * threshold THEN "high"
    ELSE IF 5 * current_value > 6 * threshold THEN "medium"
    ELSE "low"

\* determine_severity with the medium tier starting at 1.1
determine_severity_early(current_value, threshold) ==
    IF current_value >= 2 * threshold THEN "critical"
    ELSE IF 2 * current_value >= 3 * threshold THEN "high"
    ELSE IF 10 * current_value >= 11 * threshold THEN "medium"
    ELSE "low"

\* ratio = current_value / threshold; >= 2.0, >= 1.5, >= 1.2
determine_severity(current_value, threshold) ==
    IF current_value >= 2 * threshold THEN "critical"
    ELSE IF 2 * current_value >= 3 * threshold THEN "high"
    ELSE IF 5 * current_value >= 6 * threshold THEN "medium"
    ELSE "low"

\* for alert_id in alerts_to_resolve: resolve_alert(alert_id)
RECURSIVE resolve_all(_, _, _)
resolve_all(am, ids, t) ==
    IF ids = {} THEN am
    ELSE LET id == CHOOSE x \in ids : TRUE
         IN  resolve_all(resolve_alert(am, id, t), ids \ {id}, t)

\* check_one without the look for an existing active alert
check_one_no_dedup(am, metrics, row, t) ==
    LET metric_name == row[1]
        current_value == metrics[metric_name]
        threshold == alert_thresholds[metric_name]
    IN  IF current_value > threshold
        THEN create_alert(am, row[2], metric_name, current_value, threshold,
                          determine_severity(current_value, threshold), "threshold", t)
        ELSE resolve_all(am, ActiveFor(am, metric_name), t)

\* check_one that resolves only strictly under the threshold
check_one_strict_resolve(am, metrics, row, t) ==
    LET metric_name == row[1]
        current_value == metrics[metric_name]
        threshold == alert_thresholds[metric_name]
    IN  IF current_value > threshold
        THEN IF ActiveFor(am, metric_name) = {}
             THEN create_alert(am, row[2], metric_name, current_value, threshold,
                               determine_severity(current_value, threshold), "threshold", t)
             ELSE am
        ELSE IF current_value < threshold - 1
             THEN resolve_all(am, ActiveFor(am, metric_name), t)
             ELSE am

\* check_one that resolves only the alerts of the row's own category
check_one_by_category(am, metrics, row, t) ==
    LET metric_name == row[1]
        current_value == metrics[metric_name]
        threshold == alert_thresholds[metric_name]
    IN  IF current_value > threshold
        THEN IF ActiveFor(am, metric_name) = {}
             THEN create_alert(am, row[2], metric_name, current_value, threshold,
                               determine_severity(current_value, threshold), "threshold", t)
             ELSE am
        ELSE resolve_all(am, {id \in ActiveFor(am, metric_name) : id[1] = row[2]}, t)

\* the body of the for loop of _check_thresholds for one row of checks
check_one(am, metrics, row, t) ==
    LET metric_name == row[1]
        category == row[2]
    IN  IF metric_name \in DOMAIN metrics /\ metric_name \in DOMAIN alert_thresholds
        THEN LET current_value == metrics[metric_name]
                 threshold == alert_thresholds[metric_name]
             IN  IF current_value > threshold
                 THEN IF ActiveFor(am, metric_name) = {}
                      THEN create_alert(am, category, metric_name, current_value,
                                        threshold,
                                        determine_severity(current_value, threshold),
                                        "threshold", t)
                      ELSE am
                 ELSE resolve_all(am, ActiveFor(am, metric_name), t)
        ELSE am

RECURSIVE check_rows(_, _, _, _)
check_rows(am, metrics, i, t) ==
    IF i > Len(checks) THEN am
    ELSE check_rows(check_one(am, metrics, checks[i], t), metrics, i + 1, t)

check_thresholds(am, metrics, t) == check_rows(am, metrics, 1, t)

\* The callables add_custom_check may be given.  "noop" is the repository's
\* own check_database_growth / check_query_patterns (pass); "raises" is a
\* check that fails; "cpu_watch" is a caller's check that raises its own
\* alert on cpu_usage through the AlertManager it is handed, with the
\* default severity.
CheckKinds == {"noop", "raises", "cpu_watch"}

custom_check(am, metrics, kind, t) ==
    IF kind = "cpu_watch" /\ metrics.cpu_usage > ThCpuUsage
    THEN create_alert(am, "custom", "cpu_usage", metrics.cpu_usage, ThCpuUsage,
                      "medium", "custom", t)
    ELSE am

\* _run_custom_checks: every registered check in turn, failures swallowed
RECURSIVE run_custom_checks(_, _, _, _, _)
run_custom_checks(am, metrics, cks, i, t) ==
    IF i > Len(cks) THEN am
    ELSE run_custom_checks(custom_check(am, metrics, cks[i], t), metrics, cks, i + 1, t)

\* append_history that keeps the first 1000 instead of the last
append_history_head(h, x) ==
    LET h1 == Append(h, x)
    IN  IF Len(h1) > HistoryCapacity THEN SubSeq(h1, 1, HistoryCapacity) ELSE h1

\* self.metrics_history.append(metrics); keep the last 1000
append_history(h, x) ==
    LET h1 == Append(h, x)
    IN  IF Len(h1) > HistoryCapacity
        THEN SubSeq(h1, Len(h1) - HistoryCapacity + 1, Len(h1))
        ELSE h1

\* What _collect_metrics may return: the tracked fields of a processed
\* snapshot.  Calm is under every threshold.
Calm ==
    [connection_count |-> 10, cpu_usage |-> 50, memory_usage |-> 40,
     disk_usage |-> 30, slow_queries_count |-> 0]

CalmSnapshots == {Calm}

\* Scenario snapshots: cpu_usage around its threshold, memory_usage on
\* either side of its own, and one snapshot with two other metrics over.
Snapshots ==
    {[Calm EXCEPT !.cpu_usage = v] : v \in {50, 60, 79, 81, 95}}
    \cup {[Calm EXCEPT !.memory_usage = v] : v \in {84, 86}}
    \cup {[Calm EXCEPT !.disk_usage = 91, !.slow_queries_count = 11]}

\* Snapshots around every severity boundary.  psutil percentages end at 100,
\* so the high and critical tiers are reached by the two counts.
SeveritySnapshots ==
    {[Calm EXCEPT !.cpu_usage = v] : v \in 78..100}
    \cup {[Calm EXCEPT !.connection_count = c, !.slow_queries_count = q] :
             c \in {100, 101, 119, 120, 149, 150, 199, 200},
             q \in {9, 10, 11, 12, 14, 15, 19, 20, 21}}

\* start_monitoring without its guard: a worker is started on every call
start_monitoring_unguarded(e) ==
    /\ Len(mon_threads[e]) < MaxThreads
    /\ monitoring_active' = [monitoring_active EXCEPT ![e] = TRUE]
    /\ mon_threads' = [mon_threads EXCEPT ![e] = Append(@, "test")]

\* start_monitoring: what it does to the flag and the threads
start_monitoring(e) ==
    IF monitoring_active[e]
    THEN UNCHANGED <<monitoring_active, mon_threads>>
    ELSE /\ Len(mon_threads[e]) < MaxThreads
         /\ monitoring_active' = [monitoring_active EXCEPT ![e] = TRUE]
         /\ mon_threads' = [mon_threads EXCEPT ![e] = Append(@, "test")]

\* stop_monitoring that leaves the flag as it is
stop_monitoring_kept(e) ==
    UNCHANGED <<monitoring_active, mon_threads>>

\* stop_monitoring: clears the flag; the join (at most 5 s) changes nothing
stop_monitoring(e) ==
    /\ monitoring_active' = [monitoring_active EXCEPT ![e] = FALSE]
    /\ UNCHANGED mon_threads

StartMonitoring(e) ==
    /\ start_monitoring(e)
    /\ last' = [op |-> "start_monitoring", arg |-> e,
                ret |-> IF monitoring_active[e] THEN "already_active" ELSE "started"]
    /\ UNCHANGED <<now, agent, email_sink, metrics_history, samples_taken, active_alerts,
                   alert_history, outbox, custom_checks, trace, sched_vars>>

StopMonitoring(e) ==
    /\ stop_monitoring(e)
    /\ last' = [op |-> "stop_monitoring", arg |-> e,
                ret |-> IF monitoring_active[e] THEN "stopped" ELSE "already_stopped"]
    /\ UNCHANGED <<now, agent, email_sink, metrics_history, samples_taken, active_alerts,
                   alert_history, outbox, custom_checks, trace, sched_vars>>

\* add_custom_check
AddCustomCheck(e, kind) ==
    /\ Len(custom_checks[e]) < MaxChecks
    /\ custom_checks' = [custom_checks EXCEPT ![e] = Append(@, kind)]
    /\ last' = [op |-> "add_custom_check", arg |-> e, ret |-> kind]
    /\ UNCHANGED <<now, agent, email_sink, monitoring_active, mon_threads, metrics_history,
                   samples_taken, active_alerts, alert_history, outbox, trace, sched_vars>>

\* _monitoring_loop, the while test: worker w of engine e reads the flag
MonTest(e, w) ==
    /\ w \in 1..Len(mon_threads[e])
    /\ mon_threads[e][w] = "test"
    /\ mon_threads' = [mon_threads EXCEPT ![e][w] =
                          IF monitoring_active[e] THEN "cycle" ELSE "done"]
    /\ last' = [op |-> "loop_test", arg |-> e,
                ret |-> IF monitoring_active[e] THEN "continue" ELSE "exit"]
    /\ UNCHANGED <<now, agent, email_sink, monitoring_active, metrics_history, samples_taken,
                   active_alerts, alert_history, outbox, custom_checks, trace, sched_vars>>

\* MonCycle without the test of what _collect_metrics returned: the None of
\* a failed collection is appended to the history before the evaluation
\* fails on it
MonCycleUntested(e, w, S, bound) ==
    /\ w \in 1..Len(mon_threads[e])
    /\ mon_threads[e][w] = "cycle"
    /\ mon_threads' = [mon_threads EXCEPT ![e][w] = "test"]
    /\ \/ /\ last' = [op |-> "sample", arg |-> e, ret |-> "skipped"]
          /\ Len(metrics_history[e]) <= MaxSamples
          /\ metrics_history' = [metrics_history EXCEPT ![e] = append_history(@, 0)]
          /\ UNCHANGED <<samples_taken, active_alerts, alert_history, outbox, trace>>
       \/ \E metrics \in S :
             LET am == run_custom_checks(check_thresholds(AM(e), metrics, now),
                                         metrics, custom_checks[e], 1, now)
             IN  /\ samples_taken[e] < bound
                 /\ Len(am.alert_history) <= MaxAlerts
                 /\ samples_taken' = [samples_taken EXCEPT ![e] = @ + 1]
                 /\ metrics_history' = [metrics_history EXCEPT ![e] =
                                           append_history(@, samples_taken[e] + 1)]
                 /\ active_alerts' = [active_alerts EXCEPT ![e] = am.active_alerts]
                 /\ alert_history' = [alert_history EXCEPT ![e] = am.alert_history]
                 /\ outbox' = [outbox EXCEPT ![e] = am.outbox]
                 /\ trace' = [trace EXCEPT ![e] = Append(@, metrics)]
                 /\ last' = [op |-> "sample", arg |-> e, ret |-> "evaluated"]
    /\ UNCHANGED <<now, agent, email_sink, monitoring_active, custom_checks, sched_vars>>

\* _monitoring_loop, one pass of the body and the sleep after it.  Either
\* _collect_metrics returned None and the pass is skipped, or it returned a
\* snapshot of S.
MonCycle(e, w, S, bound) ==
    /\ w \in 1..Len(mon_threads[e])
    /\ mon_threads[e][w] = "cycle"
    /\ mon_threads' = [mon_threads EXCEPT ![e][w] = "test"]
    /\ \/ /\ last' = [op |-> "sample", arg |-> e, ret |-> "skipped"]
          /\ UNCHANGED <<metrics_history, samples_taken, active_alerts,
                         alert_history, outbox, trace>>
       \/ \E metrics \in S :
             LET am == run_custom_checks(check_thresholds(AM(e), metrics, now),
                                         metrics, custom_checks[e], 1, now)
             IN  /\ samples_taken[e] < bound
                 /\ Len(am.alert_history) <= MaxAlerts
                 /\ samples_taken' = [samples_taken EXCEPT ![e] = @ + 1]
                 /\ metrics_history' = [metrics_history EXCEPT ![e] =
                                           append_history(@, samples_taken[e] + 1)]
                 /\ active_alerts' = [active_alerts EXCEPT ![e] = am.active_alerts]
                 /\ alert_history' = [alert_history EXCEPT ![e] = am.alert_history]
                 /\ outbox' = [outbox EXCEPT ![e] = am.outbox]
                 /\ trace' = [trace EXCEPT ![e] = Append(@, metrics)]
                 /\ last' = [op |-> "sample", arg |-> e, ret |-> "evaluated"]
    /\ UNCHANGED <<now, agent, email_sink, monitoring_active, custom_checks, sched_vars>>

\* the wall clock moves on one second
Tick ==
    /\ now < MaxClock
    /\ now' = now + 1
    /\ UNCHANGED <<agent, email_sink, mon_vars, sched_vars, last>>

\* the wall clock moves on one second, up to a horizon of its own
TickWithin(bound) ==
    /\ now < bound
    /\ now' = now + 1
    /\ UNCHANGED <<agent, email_sink, mon_vars, sched_vars, last>>

\* ids a caller of resolve_alert may pass: those of alerts created so far and
\* one that no alert ever had
UnknownId == alert_id("performance", "cpu_usage", MaxClock + 1)

AlertIds(e) == {alert_history[e][i].id : i \in 1..Len(alert_history[e])} \cup {UnknownId}

\* AlertManager.resolve_alert called on engine e's manager; returns a bool
ResolveAlert(e, id) ==
    /\ last' = [op |-> "resolve_alert", arg |-> e,
                ret |-> IF id \in DOMAIN active_alerts[e] THEN "True" ELSE "False"]
    /\ LET am == resolve_alert(AM(e), id, now)
       IN  /\ active_alerts' = [active_alerts EXCEPT ![e] = am.active_alerts]
           /\ alert_history' = [alert_history EXCEPT ![e] = am.alert_history]
    /\ UNCHANGED <<now, agent, email_sink, monitoring_active, mon_threads, metrics_history,
                   samples_taken, outbox, custom_checks, trace, sched_vars>>

\* the SMTP server behind a configured sink goes down or comes back
SmtpChange ==
    /\ email_sink # "unconfigured"
    /\ email_sink' = IF email_sink = "delivers" THEN "fails" ELSE "delivers"
    /\ UNCHANGED <<now, agent, mon_vars, sched_vars, last>>

\* ------------------------------------------------------------ TaskScheduler

\* The tasks _setup_default_tasks registers under the default configuration
\* (reports_enabled, backup_enabled, backup_schedule = "daily").
DefaultTasks ==
    [daily_health_report |-> [fn |-> "generate_health_report", schedule_type |-> "daily"],
     weekly_performance_report |-> [fn |-> "generate_performance_report", schedule_type |-> "weekly"],
     daily_backup |-> [fn |-> "perform_backup", schedule_type |-> "daily"],
     weekly_optimization |-> [fn |-> "optimize_tables", schedule_type |-> "weekly"],
     cleanup_old_files |-> [fn |-> "cleanup_old_files", schedule_type |-> "daily"],
     connection_check |-> [fn |-> "check_database_connection", schedule_type |-> "interval"]]

\* The ids the scheduler is addressed with: the default ones and one more.
TaskIds == DOMAIN DefaultTasks \cup {"job1"}

\* Callables a caller hands to add_task: one that raises on every call, one
\* that sometimes does.
UserFns == {"fails", "flaky"}

\* What a call of the task function can end with.  _check_database_connection
\* returns True, returns False (source unreachable) or re-raises what
\* test_connection raised; the others return a value or raise.
Outcomes(fn) ==
    IF fn = "check_database_connection" THEN {"True", "False", "raised"}
    ELSE IF fn = "fails" THEN {"raised"}
    ELSE {"raised", "returned"}

\* ScheduledTask(...) as add_task builds it
ScheduledTask(fn, schedule_type, enabled) ==
    [fn |-> fn, schedule_type |-> schedule_type, enabled |-> enabled,
     last_run |-> NULL, run_count |-> 0, error_count |-> 0, last_error |-> NULL]

\* _check_database_connection with a severity of high
check_database_connection_high(am, outcome, t) ==
    IF outcome = "False"
    THEN create_alert(am, "connection", "database_connection", 0, 1, "high",
                      "connection_check", t)
    ELSE am

\* _check_database_connection with a recovery branch: a reachable source
\* resolves the active database_connection alerts
check_database_connection_recovering(am, outcome, t) ==
    IF outcome = "False"
    THEN create_alert(am, "connection", "database_connection", 0, 1, "critical",
                      "connection_check", t)
    ELSE IF outcome = "True"
    THEN resolve_all(am, ActiveFor(am, "database_connection"), t)
    ELSE am

\* _check_database_connection: the alert of the unreachable branch
check_database_connection(am, outcome, t) ==
    IF outcome = "False"
    THEN create_alert(am, "connection", "database_connection", 0, 1, "critical",
                      "connection_check", t)
    ELSE am

\* the task function's effect on the scheduler's own AlertManager
call_function(am, fn, outcome, t) ==
    IF fn = "check_database_connection"
    THEN check_database_connection(am, outcome, t)
    ELSE am

\* _execute_task that trips only past the ceiling
task_after_run_late(task, outcome, t) ==
    LET started == [task EXCEPT !.last_run = t, !.run_count = @ + 1]
    IN  IF outcome = "raised"
        THEN LET failed == [started EXCEPT !.error_count = @ + 1,
                                           !.last_error = "error"]
             IN  IF failed.error_count > ErrorCeiling
                 THEN [failed EXCEPT !.enabled = FALSE]
                 ELSE failed
        ELSE [started EXCEPT !.last_error = NULL]

\* _execute_task that leaves last_error as it was after a success
task_after_run_sticky(task, outcome, t) ==
    LET started == [task EXCEPT !.last_run = t, !.run_count = @ + 1]
    IN  IF outcome = "raised"
        THEN LET failed == [started EXCEPT !.error_count = @ + 1,
                                           !.last_error = "error"]
             IN  IF failed.error_count >= ErrorCeiling
                 THEN [failed EXCEPT !.enabled = FALSE]
                 ELSE failed
        ELSE started

\* _execute_task counting consecutive failures: a success clears error_count
task_after_run_consecutive(task, outcome, t) ==
    LET started == [task EXCEPT !.last_run = t, !.run_count = @ + 1]
    IN  IF outcome = "raised"
        THEN LET failed == [started EXCEPT !.error_count = @ + 1,
                                           !.last_error = "error"]
             IN  IF failed.error_count >= ErrorCeiling
                 THEN [failed EXCEPT !.enabled = FALSE]
                 ELSE failed
        ELSE [started EXCEPT !.last_error = NULL, !.error_count = 0]

\* _execute_task taking a result of False for a failure
task_after_run_falsy(task, outcome, t) ==
    LET started == [task EXCEPT !.last_run = t, !.run_count = @ + 1]
    IN  IF outcome \in {"False", "raised"}
        THEN LET failed == [started EXCEPT !.error_count = @ + 1,
                                           !.last_error = "error"]
             IN  IF failed.error_count >= ErrorCeiling
                 THEN [failed EXCEPT !.enabled = FALSE]
                 ELSE failed
        ELSE [started EXCEPT !.last_error = NULL]

\* _execute_task: the ScheduledTask after the run (disable_task included)
task_after_run(task, outcome, t) ==
    LET started == [task EXCEPT !.last_run = t, !.run_count = @ + 1]
    IN  IF outcome = "raised"
        THEN LET failed == [started EXCEPT !.error_count = @ + 1,
                                           !.last_error = "error"]
             IN  IF failed.error_count >= ErrorCeiling
                 THEN [failed EXCEPT !.enabled = FALSE]
                 ELSE failed
        ELSE [started EXCEPT !.last_error = NULL]

\* _execute_task on the registered task t, its function ending with outcome
execute_task(t, outcome, bound) ==
    LET task == scheduled_tasks[t]
        after == task_after_run(task, outcome, now)
        am == call_function(AM("sched"), task.fn, outcome, now)
    IN  /\ last' = [op |-> "execute_task", arg |-> t, ret |-> outcome]
        /\ task.run_count < bound
        /\ Len(am.alert_history) <= MaxAlerts
        /\ scheduled_tasks' = [scheduled_tasks EXCEPT ![t] = after]
        \* disable_task: schedule.clear(task_id)
        /\ jobs' = IF outcome = "raised" /\ ~after.enabled
                   THEN [jobs EXCEPT ![t] = 0] ELSE jobs
        /\ active_alerts' = [active_alerts EXCEPT !["sched"] = am.active_alerts]
        /\ alert_history' = [alert_history EXCEPT !["sched"] = am.alert_history]
        /\ outbox' = [outbox EXCEPT !["sched"] = am.outbox]

\* datetime.now().day and .month of the clock value t (days of DayLength
\* seconds, months of DaysPerMonth days, years of MonthsPerYear months)
day_of(t) == ((t \div DayLength) % DaysPerMonth) + 1
month_of(t) == ((t \div (DayLength * DaysPerMonth)) % MonthsPerYear) + 1

\* the test of _check_monthly_task without the look at last_run
monthly_due_daily(task, t) == day_of(t) = 1

\* the test of _check_monthly_task:
\* now.day == 1 and (not task.last_run or task.last_run.month != now.month)
monthly_due(task, t) ==
    /\ day_of(t) = 1
    /\ \/ ToString(task.last_run) = ToString(NULL)
       \/ month_of(task.last_run) # month_of(t)

\* _check_monthly_task on the registered task t
check_monthly_task(t, outcome, bound) ==
    IF monthly_due(scheduled_tasks[t], now)
    THEN execute_task(t, outcome, bound)
    ELSE /\ UNCHANGED <<scheduled_tasks, jobs, active_alerts, alert_history, outbox>>
         /\ last' = [op |-> "check_monthly_task", arg |-> t, ret |-> "skipped"]

\* _schedule_task: one more armed entry tagged with the task id
schedule_task(t) == [jobs EXCEPT ![t] = @ + 1]

\* the cadence kinds _schedule_task arms an entry for
ScheduleTypes == {"daily", "weekly", "interval", "monthly"}

\* add_task that replaces a task already registered
AddTaskOverwriting(t, fn, schedule_type, enabled) ==
    /\ scheduled_tasks' =
          [k \in DOMAIN scheduled_tasks \cup {t} |->
              IF k = t THEN ScheduledTask(fn, schedule_type, enabled)
              ELSE scheduled_tasks[k]]
    /\ jobs' = IF enabled THEN schedule_task(t) ELSE jobs
    /\ last' = [op |-> "add_task", arg |-> t, ret |-> "True"]
    /\ UNCHANGED <<now, agent, email_sink, runners, mon_vars, scheduler_active, sched_threads>>

\* add_task
AddTask(t, fn, schedule_type, enabled) ==
    /\ IF t \in DOMAIN scheduled_tasks
       THEN /\ UNCHANGED <<scheduled_tasks, jobs>>
            /\ last' = [op |-> "add_task", arg |-> t, ret |-> "False"]
       ELSE /\ scheduled_tasks' =
                  [k \in DOMAIN scheduled_tasks \cup {t} |->
                      IF k = t THEN ScheduledTask(fn, schedule_type, enabled)
                      ELSE scheduled_tasks[k]]
            /\ jobs' = IF enabled THEN schedule_task(t) ELSE jobs
            /\ last' = [op |-> "add_task", arg |-> t, ret |-> "True"]
    /\ UNCHANGED <<now, agent, email_sink, runners, mon_vars, scheduler_active, sched_threads>>

\* disable_task without the test for an unknown id
DisableTaskUnchecked(t) ==
    /\ jobs' = [jobs EXCEPT ![t] = 0]
    /\ scheduled_tasks' =
          IF t \in DOMAIN scheduled_tasks
          THEN [scheduled_tasks EXCEPT ![t].enabled = FALSE]
          ELSE [k \in DOMAIN scheduled_tasks \cup {t} |->
                   IF k = t THEN ScheduledTask("fails", "interval", FALSE)
                   ELSE scheduled_tasks[k]]
    /\ last' = [op |-> "disable_task", arg |-> t, ret |-> "True"]
    /\ UNCHANGED <<now, agent, email_sink, runners, mon_vars, scheduler_active, sched_threads>>

\* enable_task
EnableTask(t) ==
    /\ IF t \notin DOMAIN scheduled_tasks
       THEN /\ UNCHANGED <<scheduled_tasks, jobs>>
            /\ last' = [op |-> "enable_task", arg |-> t, ret |-> "False"]
       ELSE /\ jobs[t] < MaxArmed
            /\ scheduled_tasks' = [scheduled_tasks EXCEPT ![t].enabled = TRUE]
            /\ jobs' = schedule_task(t)
            /\ last' = [op |-> "enable_task", arg |-> t, ret |-> "True"]
    /\ UNCHANGED <<now, agent, email_sink, runners, mon_vars, scheduler_active, sched_threads>>

\* disable_task
DisableTask(t) ==
    /\ IF t \notin DOMAIN scheduled_tasks
       THEN /\ UNCHANGED <<scheduled_tasks, jobs>>
            /\ last' = [op |-> "disable_task", arg |-> t, ret |-> "False"]
       ELSE /\ scheduled_tasks' = [scheduled_tasks EXCEPT ![t].enabled = FALSE]
            /\ jobs' = [jobs EXCEPT ![t] = 0]
            /\ last' = [op |-> "disable_task", arg |-> t, ret |-> "True"]
    /\ UNCHANGED <<now, agent, email_sink, runners, mon_vars, scheduler_active, sched_threads>>

\* WebDashboard._run_task_manually: a thread of its own runs _execute_task
ManualRun(t, bound) ==
    /\ t \in DOMAIN scheduled_tasks
    /\ \E outcome \in Outcomes(scheduled_tasks[t].fn) : execute_task(t, outcome, bound)
    /\ UNCHANGED <<now, agent, email_sink, runners, monitoring_active, mon_threads, metrics_history, samples_taken,
                   custom_checks, trace, scheduler_active, sched_threads>>

\* WebDashboard._run_task_manually on a registered task: starts a thread
\* that will run _execute_task(task) and answers at once.  The steps of that
\* thread follow, one per read or write of the shared ScheduledTask; no lock
\* is held across them, so the steps of two threads interleave.
RunNow(t) ==
    /\ t \in DOMAIN scheduled_tasks
    /\ Len(runners) < MaxRunners
    /\ runners' = Append(runners, [task |-> t, pc |-> "stamp", reg |-> 0, outcome |-> NULL])
    /\ last' = [op |-> "run_task_manually", arg |-> t, ret |-> "success"]
    /\ UNCHANGED <<now, agent, email_sink, mon_vars, scheduler_active, sched_threads,
                   scheduled_tasks, jobs>>

\* task.last_run = datetime.now(), and the read of "task.run_count += 1"
ExecStamp(r) ==
    /\ r \in 1..Len(runners)
    /\ runners[r].pc = "stamp"
    /\ scheduled_tasks' = [scheduled_tasks EXCEPT ![runners[r].task].last_run = now]
    /\ runners' = [runners EXCEPT ![r].pc = "count",
                                  ![r].reg = scheduled_tasks[runners[r].task].run_count]
    /\ last' = [op |-> "execute_step", arg |-> r, ret |-> "stamp"]
    /\ UNCHANGED <<now, agent, email_sink, mon_vars, scheduler_active, sched_threads, jobs>>

\* the write of "task.run_count += 1"
ExecCount(r) ==
    /\ r \in 1..Len(runners)
    /\ runners[r].pc = "count"
    /\ scheduled_tasks' = [scheduled_tasks EXCEPT ![runners[r].task].run_count = runners[r].reg + 1]
    /\ runners' = [runners EXCEPT ![r].pc = "call"]
    /\ last' = [op |-> "execute_step", arg |-> r, ret |-> "count"]
    /\ UNCHANGED <<now, agent, email_sink, mon_vars, scheduler_active, sched_threads, jobs>>

\* result = task.function(): it returns and last_error is cleared, or it
\* raises and the except branch reads error_count for "task.error_count += 1"
ExecCall(r) ==
    /\ r \in 1..Len(runners)
    /\ runners[r].pc = "call"
    /\ \E outcome \in Outcomes(scheduled_tasks[runners[r].task].fn) :
          LET t == runners[r].task
              am == call_function(AM("sched"), scheduled_tasks[t].fn, outcome, now)
          IN  /\ last' = [op |-> "execute_step", arg |-> r, ret |-> outcome]
              /\ Len(am.alert_history) <= MaxAlerts
              /\ active_alerts' = [active_alerts EXCEPT !["sched"] = am.active_alerts]
              /\ alert_history' = [alert_history EXCEPT !["sched"] = am.alert_history]
              /\ outbox' = [outbox EXCEPT !["sched"] = am.outbox]
              /\ IF outcome = "raised"
                 THEN /\ runners' = [runners EXCEPT ![r].pc = "fail",
                                                   ![r].outcome = outcome,
                                                   ![r].reg = scheduled_tasks[t].error_count]
                      /\ UNCHANGED scheduled_tasks
                 ELSE /\ runners' = [runners EXCEPT ![r].pc = "done", ![r].outcome = outcome]
                      /\ scheduled_tasks' = [scheduled_tasks EXCEPT ![t].last_error = NULL]
    /\ UNCHANGED <<now, agent, email_sink, monitoring_active, mon_threads, metrics_history,
                   samples_taken, custom_checks, trace, scheduler_active, sched_threads, jobs>>

\* the write of "task.error_count += 1", last_error = str(e), and
\* disable_task at the ceiling
ExecFail(r) ==
    /\ r \in 1..Len(runners)
    /\ runners[r].pc = "fail"
    /\ LET t == runners[r].task
           tripped == runners[r].reg + 1 >= ErrorCeiling
       IN  /\ scheduled_tasks' = [scheduled_tasks EXCEPT
                  ![t].error_count = runners[r].reg + 1,
                  ![t].last_error = "error",
                  ![t].enabled = IF tripped THEN FALSE ELSE @]
           /\ jobs' = IF tripped THEN [jobs EXCEPT ![t] = 0] ELSE jobs
    /\ runners' = [runners EXCEPT ![r].pc = "done"]
    /\ last' = [op |-> "execute_step", arg |-> r, ret |-> "fail"]
    /\ UNCHANGED <<now, agent, email_sink, mon_vars, scheduler_active, sched_threads>>

\* remove_task
RemoveTask(t) ==
    /\ IF t \notin DOMAIN scheduled_tasks
       THEN /\ UNCHANGED <<scheduled_tasks, jobs>>
            /\ last' = [op |-> "remove_task", arg |-> t, ret |-> "False"]
       ELSE /\ jobs' = [jobs EXCEPT ![t] = 0]
            /\ scheduled_tasks' = [k \in DOMAIN scheduled_tasks \ {t} |-> scheduled_tasks[k]]
            /\ last' = [op |-> "remove_task", arg |-> t, ret |-> "True"]
    /\ UNCHANGED <<now, agent, email_sink, runners, mon_vars, scheduler_active, sched_threads>>

\* WebDashboard._toggle_task: {'success': ..., 'message': ...}
ToggleTask(t) ==
    /\ IF t \notin DOMAIN scheduled_tasks
       THEN /\ UNCHANGED <<scheduled_tasks, jobs>>
            /\ last' = [op |-> "toggle_task", arg |-> t, ret |-> "failure"]
       ELSE /\ IF scheduled_tasks[t].enabled
               THEN /\ scheduled_tasks' = [scheduled_tasks EXCEPT ![t].enabled = FALSE]
                    /\ jobs' = [jobs EXCEPT ![t] = 0]
               ELSE /\ jobs[t] < MaxArmed
                    /\ scheduled_tasks' = [scheduled_tasks EXCEPT ![t].enabled = TRUE]
                    /\ jobs' = schedule_task(t)
            /\ last' = [op |-> "toggle_task", arg |-> t, ret |-> "success"]
    /\ UNCHANGED <<now, agent, email_sink, runners, mon_vars, scheduler_active, sched_threads>>

\* WebDashboard._run_task_manually, the unknown id included
RunTaskManually(t, bound) ==
    \/ /\ t \notin DOMAIN scheduled_tasks
       /\ last' = [op |-> "run_task_manually", arg |-> t, ret |-> "failure"]
       /\ UNCHANGED prog_vars
    \/ ManualRun(t, bound)

NoJobs == [t \in TaskIds |-> 0]

\* start_scheduler
StartScheduler ==
    /\ IF scheduler_active
       THEN /\ UNCHANGED <<scheduler_active, sched_threads, monitoring_active, mon_threads>>
            /\ last' = [op |-> "start_scheduler", arg |-> NULL, ret |-> "already_active"]
       ELSE /\ Len(sched_threads) < MaxPollers
            /\ scheduler_active' = TRUE
            /\ sched_threads' = Append(sched_threads, [pc |-> "test", pending |-> NoJobs])
            \* config.monitoring_enabled (default True)
            /\ start_monitoring("sched")
            /\ last' = [op |-> "start_scheduler", arg |-> NULL, ret |-> "started"]
    /\ UNCHANGED <<now, agent, email_sink, runners, metrics_history, samples_taken, active_alerts, alert_history, outbox,
                   custom_checks, trace, scheduled_tasks, jobs>>

\* stop_scheduler: clears the flag, joins (at most 5 s), stops the engine
StopScheduler ==
    /\ scheduler_active' = FALSE
    /\ stop_monitoring("sched")
    /\ last' = [op |-> "stop_scheduler", arg |-> NULL,
                ret |-> IF scheduler_active THEN "stopped" ELSE "already_stopped"]
    /\ UNCHANGED <<now, agent, email_sink, runners, sched_threads, metrics_history, samples_taken, active_alerts,
                   alert_history, outbox, custom_checks, trace, scheduled_tasks, jobs>>

\* _scheduler_loop: the while test and, the flag being set, the start of
\* schedule.run_pending().  run_pending collects the armed entries that are
\* due into a list of its own (sorted(runnable_jobs)) and then runs that
\* list; entries cleared meanwhile stay in it.  Which entries are due is the
\* clock's doing: any of the armed entries tagged with an id of ids.
SchedTest(w, ids) ==
    /\ w \in 1..Len(sched_threads)
    /\ sched_threads[w].pc = "test"
    /\ IF ~scheduler_active
       THEN /\ sched_threads' = [sched_threads EXCEPT ![w].pc = "done"]
            /\ last' = [op |-> "scheduler_loop", arg |-> NULL, ret |-> "exit"]
       ELSE \E d \in [ids -> 0..MaxArmed] :
               LET due == [t \in TaskIds |-> IF t \in ids THEN d[t] ELSE 0]
               IN  /\ \A t \in ids : d[t] <= jobs[t]
                   /\ sched_threads' = [sched_threads EXCEPT
                          ![w] = [pc |-> IF due = NoJobs THEN "test" ELSE "run",
                                  pending |-> due]]
                   /\ last' = [op |-> "scheduler_loop", arg |-> NULL,
                               ret |-> IF due = NoJobs THEN "idle" ELSE "run_pending"]
    /\ UNCHANGED <<now, agent, email_sink, runners, mon_vars, scheduler_active, scheduled_tasks, jobs>>

RECURSIVE SumPending(_, _)
SumPending(t, n) == IF n = 0 THEN 0 ELSE sched_threads[n].pending[t] + SumPending(t, n - 1)

\* entries of task t that polling threads hold in their lists, not yet run
InFlight(t) == SumPending(t, Len(sched_threads))

\* SchedTest over a horizon: no entry of a task that has run bound times
\* comes due any more
SchedTestWithin(w, ids, bound) ==
    /\ w \in 1..Len(sched_threads)
    /\ sched_threads[w].pc = "test"
    /\ IF ~scheduler_active
       THEN /\ sched_threads' = [sched_threads EXCEPT ![w].pc = "done"]
            /\ last' = [op |-> "scheduler_loop", arg |-> NULL, ret |-> "exit"]
       ELSE \E d \in [ids -> 0..MaxArmed] :
               LET due == [t \in TaskIds |-> IF t \in ids THEN d[t] ELSE 0]
               IN  /\ \A t \in ids : d[t] <= jobs[t]
                   /\ \A t \in ids : d[t] > 0 => scheduled_tasks[t].run_count + InFlight(t) + d[t] <= bound
                   /\ sched_threads' = [sched_threads EXCEPT
                          ![w] = [pc |-> IF due = NoJobs THEN "test" ELSE "run",
                                  pending |-> due]]
                   /\ last' = [op |-> "scheduler_loop", arg |-> NULL,
                               ret |-> IF due = NoJobs THEN "idle" ELSE "run_pending"]
    /\ UNCHANGED <<now, agent, email_sink, runners, mon_vars, scheduler_active, scheduled_tasks, jobs>>

\* RunJob with the callable's exception ending the polling thread
RunJobUncontained(w, t, bound) ==
    /\ w \in 1..Len(sched_threads)
    /\ sched_threads[w].pc = "run"
    /\ sched_threads[w].pending[t] > 0
    /\ scheduled_tasks[t].schedule_type # "monthly"
    /\ \E outcome \in Outcomes(scheduled_tasks[t].fn) :
          /\ execute_task(t, outcome, bound)
          /\ LET rest == [sched_threads[w].pending EXCEPT ![t] = @ - 1]
             IN  sched_threads' = [sched_threads EXCEPT
                     ![w] = [pc |-> IF outcome = "raised" THEN "done"
                                    ELSE IF rest = NoJobs THEN "test" ELSE "run",
                             pending |-> rest]]
    /\ UNCHANGED <<now, agent, email_sink, runners, monitoring_active, mon_threads, metrics_history,
                   samples_taken, custom_checks, trace, scheduler_active>>

\* run_pending runs one entry of its list, armed for an interval, daily or
\* weekly task: wrapped_function -> _execute_task
RunJob(w, t, bound) ==
    /\ w \in 1..Len(sched_threads)
    /\ sched_threads[w].pc = "run"
    /\ sched_threads[w].pending[t] > 0
    /\ scheduled_tasks[t].schedule_type # "monthly"
    /\ \E outcome \in Outcomes(scheduled_tasks[t].fn) : execute_task(t, outcome, bound)
    /\ LET rest == [sched_threads[w].pending EXCEPT ![t] = @ - 1]
       IN  sched_threads' = [sched_threads EXCEPT
               ![w] = [pc |-> IF rest = NoJobs THEN "test" ELSE "run", pending |-> rest]]
    /\ UNCHANGED <<now, agent, email_sink, runners, monitoring_active, mon_threads, metrics_history, samples_taken,
                   custom_checks, trace, scheduler_active>>

\* run_pending runs one entry of its list, armed for a monthly task:
\* _check_monthly_task(task)
RunMonthlyJob(w, t, bound) ==
    /\ w \in 1..Len(sched_threads)
    /\ sched_threads[w].pc = "run"
    /\ sched_threads[w].pending[t] > 0
    /\ scheduled_tasks[t].schedule_type = "monthly"
    /\ \E outcome \in Outcomes(scheduled_tasks[t].fn) : check_monthly_task(t, outcome, bound)
    /\ LET rest == [sched_threads[w].pending EXCEPT ![t] = @ - 1]
       IN  sched_threads' = [sched_threads EXCEPT
               ![w] = [pc |-> IF rest = NoJobs THEN "test" ELSE "run", pending |-> rest]]
    /\ UNCHANGED <<now, agent, email_sink, runners, monitoring_active, mon_threads, metrics_history, samples_taken,
                   custom_checks, trace, scheduler_active>>

\* SQLAutomationAgent.start, taken once on the components initialize() built:
\* sets running, starts the agent's engine (monitoring_enabled), and then
\* calls self.scheduler.start(), a method TaskScheduler does not have, so the
\* call raises AttributeError out of start()
AgentStart ==
    /\ agent = "initialized"
    /\ agent' = "running"
    /\ start_monitoring("agent")
    /\ last' = [op |-> "agent_start", arg |-> NULL, ret |-> "raised"]
    /\ UNCHANGED <<now, email_sink, metrics_history, samples_taken, active_alerts,
                   alert_history, outbox, custom_checks, trace, sched_vars>>

\* SQLAutomationAgent.stop: clears running and stops the agent's engine
AgentStop ==
    /\ agent' = "stopped"
    /\ stop_monitoring("agent")
    /\ last' = [op |-> "agent_stop", arg |-> NULL, ret |-> NULL]
    /\ UNCHANGED <<now, email_sink, metrics_history, samples_taken, active_alerts,
                   alert_history, outbox, custom_checks, trace, sched_vars>>

\* everything the constructors build, the notification settings aside
Constructed ==
    /\ now = 0
    /\ agent = "initialized"
    /\ monitoring_active = [e \in Engines |-> FALSE]
    /\ mon_threads = [e \in Engines |-> <<>>]
    /\ metrics_history = [e \in Engines |-> <<>>]
    /\ samples_taken = [e \in Engines |-> 0]
    /\ active_alerts = [e \in Engines |-> <<>>]
    /\ alert_history = [e \in Engines |-> <<>>]
    /\ custom_checks = [e \in Engines |-> <<>>]
    /\ trace = [e \in Engines |-> <<>>]
    /\ scheduler_active = FALSE
    /\ sched_threads = <<>>
    /\ scheduled_tasks = [t \in DOMAIN DefaultTasks |->
                             ScheduledTask(DefaultTasks[t].fn,
                                           DefaultTasks[t].schedule_type, TRUE)]
    /\ jobs = [t \in TaskIds |-> IF t \in DOMAIN DefaultTasks THEN 1 ELSE 0]
    /\ runners = <<>>
    /\ last = [op |-> "init", arg |-> NULL, ret |-> NULL]
    /\ outbox = [e \in Engines |-> <<>>]

\* EMAIL_USERNAME and EMAIL_TO unset (src/config.py:46, 50): no notifications
Init == Constructed /\ email_sink = "unconfigured"

\* EMAIL_USERNAME and EMAIL_TO set; the SMTP server answers or does not
InitMail == Constructed /\ email_sink \in {"delivers", "fails"}

\* The registry and the polling loop, addressed with job1.  The daily and
\* weekly defaults and the connection check do not come due here.
NextBreaker ==
    \/ \E fn \in UserFns, en \in BOOLEAN : AddTask("job1", fn, "interval", en)
    \/ EnableTask("job1")
    \/ DisableTask("job1")
    \/ ManualRun("job1", MaxRuns)
    \/ StartScheduler
    \/ StopScheduler
    \/ \E w \in 1..MaxPollers : SchedTest(w, {"job1"})
    \/ \E w \in 1..MaxPollers : RunJob(w, "job1", MaxRuns)

SpecBreaker == Init /\ [][NextBreaker]_vars

\* The agent's own engine, driven directly (src/main.py:104, 117, 198, 207).
NextEngine ==
    \/ StartMonitoring("agent")
    \/ \E w \in 1..MaxThreads : MonTest("agent", w)
    \/ \E w \in 1..MaxThreads : MonCycle("agent", w, Snapshots, MaxSamples)
    \/ Tick

SpecEngine == Init /\ [][NextEngine]_vars

\* One engine sampling calm snapshots for longer than the history holds.
NextHistory ==
    \/ StartMonitoring("agent")
    \/ \E w \in 1..MaxThreads : MonTest("agent", w)
    \/ \E w \in 1..MaxThreads : MonCycle("agent", w, CalmSnapshots, MaxHistSamples)

SpecHistory == Init /\ [][NextHistory]_vars

\* One engine sampling snapshots around the severity boundaries.
NextSeverity ==
    \/ StartMonitoring("agent")
    \/ \E w \in 1..MaxThreads : MonTest("agent", w)
    \/ \E w \in 1..MaxThreads : MonCycle("agent", w, SeveritySnapshots, MaxSevSamples)
    \/ Tick

SpecSeverity == Init /\ [][NextSeverity]_vars

\* The scheduler's own engine and its connection check: sampling, custom
\* checks, and the connection_check task run by the polling loop or by hand.
AlertSnapshots == {Calm, [Calm EXCEPT !.cpu_usage = 81]}

NextAlerts ==
    \/ StartScheduler
    \/ \E k \in CheckKinds : AddCustomCheck("sched", k)
    \/ \E w \in 1..MaxThreads : MonTest("sched", w)
    \/ \E w \in 1..MaxThreads : MonCycle("sched", w, AlertSnapshots, MaxFewSamples)
    \/ \E w \in 1..MaxPollers : SchedTest(w, {"connection_check"})
    \/ \E w \in 1..MaxPollers : RunJob(w, "connection_check", MaxCheckRuns)
    \/ ManualRun("connection_check", MaxCheckRuns)
    \/ Tick

SpecAlerts == Init /\ [][NextAlerts]_vars

\* The connection check alone: the scheduler's engine samples, and the
\* connection_check task is run by the polling loop or by hand.
NextConnection ==
    \/ StartScheduler
    \/ \E w \in 1..MaxThreads : MonTest("sched", w)
    \/ \E w \in 1..MaxThreads : MonCycle("sched", w, AlertSnapshots, MaxFewSamples)
    \/ \E w \in 1..MaxPollers : SchedTest(w, {"connection_check"})
    \/ \E w \in 1..MaxPollers : RunJob(w, "connection_check", MaxCheckRuns)
    \/ ManualRun("connection_check", MaxCheckRuns)
    \/ Tick

SpecConnection == Init /\ [][NextConnection]_vars

\* The connection check and the scheduler's engine with a notification sink
\* configured, its server up or down.
NextMail ==
    \/ NextConnection
    \/ SmtpChange

SpecMail == InitMail /\ [][NextMail]_vars

\* The agent's engine sampling a cpu_usage at or over its threshold while a
\* caller resolves alerts by id.
NextResolve ==
    \/ StartMonitoring("agent")
    \/ \E w \in 1..MaxThreads : MonTest("agent", w)
    \/ \E w \in 1..MaxThreads : MonCycle("agent", w, AlertSnapshots, MaxSamples)
    \/ \E id \in AlertIds("agent") : ResolveAlert("agent", id)
    \/ Tick

SpecResolve == Init /\ [][NextResolve]_vars

\* The task registry and the control surface, addressed with job1 while it
\* is registered and while it is not.
NextRegistry ==
    \/ \E fn \in UserFns, ty \in ScheduleTypes, en \in BOOLEAN : AddTask("job1", fn, ty, en)
    \/ EnableTask("job1")
    \/ DisableTask("job1")
    \/ RemoveTask("job1")
    \/ ToggleTask("job1")
    \/ RunTaskManually("job1", MaxRuns)

SpecRegistry == Init /\ [][NextRegistry]_vars

\* The application's lifecycle: the agent is started and stopped, and the
\* scheduler, which the agent's start does not reach, is started and stopped
\* through its own methods.
NextAgent ==
    \/ AgentStart
    \/ AgentStop
    \/ StartScheduler
    \/ StopScheduler
    \/ \E e \in Engines, w \in 1..MaxThreads : MonTest(e, w)
    \/ \E e \in Engines, w \in 1..MaxThreads : MonCycle(e, w, CalmSnapshots, MaxFewSamples)
    \/ \E w \in 1..MaxPollers : SchedTest(w, {})

SpecAgent == Init /\ [][NextAgent]_vars

\* The polling loop with two tasks coming due in one pass: job1, whose
\* callable may raise, and the connection check.
NextContain ==
    \/ \E fn \in UserFns : AddTask("job1", fn, "interval", TRUE)
    \/ StartScheduler
    \/ StopScheduler
    \/ \E w \in 1..MaxPollers : SchedTest(w, {"connection_check", "job1"})
    \/ \E w \in 1..MaxPollers, t \in {"connection_check", "job1"} : RunJob(w, t, MaxCheckRuns)

SpecContain == Init /\ [][NextContain]_vars

\* The agent's engine with a caller's check that alerts on cpu_usage under
\* a category of its own, sampling cpu_usage and memory_usage on either side
\* of their thresholds.
CustomSnapshots ==
    {Calm, [Calm EXCEPT !.memory_usage = 86], [Calm EXCEPT !.cpu_usage = 81],
     [Calm EXCEPT !.cpu_usage = 81, !.memory_usage = 86]}

NextCustom ==
    \/ AddCustomCheck("agent", "cpu_watch")
    \/ StartMonitoring("agent")
    \/ \E w \in 1..MaxThreads : MonTest("agent", w)
    \/ \E w \in 1..MaxThreads : MonCycle("agent", w, CustomSnapshots, MaxSamples)
    \/ Tick

SpecCustom == Init /\ [][NextCustom]_vars

\* Start and stop of the agent's engine, of the scheduler and of the engine
\* the scheduler owns; no task comes due.
NextLifecycle ==
    \/ StartMonitoring("agent")
    \/ StopMonitoring("agent")
    \/ StartScheduler
    \/ StopScheduler
    \/ \E e \in Engines, w \in 1..MaxThreads : MonTest(e, w)
    \/ \E e \in Engines, w \in 1..MaxThreads : MonCycle(e, w, CalmSnapshots, MaxFewSamples)
    \/ \E w \in 1..MaxPollers : SchedTest(w, {})

SpecLifecycle == Init /\ [][NextLifecycle]_vars

\* ------------------------------------------------------------------ claims

\* A monthly task: registered, armed (twice, when enable_task follows), run
\* by hand and checked by the polling loop while the days go by.
NextMonthly ==
    \/ \E fn \in UserFns, en \in BOOLEAN : AddTask("job1", fn, "monthly", en)
    \/ EnableTask("job1")
    \/ ManualRun("job1", MaxMonthlyRuns)
    \/ StartScheduler
    \/ \E w \in 1..MaxPollers : SchedTest(w, {"job1"})
    \/ \E w \in 1..MaxPollers : RunMonthlyJob(w, "job1", MaxMonthlyRuns)
    \/ TickWithin(MaxDays * DayLength)

SpecMonthly == Init /\ [][NextMonthly]_vars

\* The scheduler and the engine it owns, started and stopped, with the
\* worker threads scheduled fairly: a thread that can take its next step
\* (the loop test, the body of a pass and its sleep, an entry of
\* run_pending) takes it in the end.  The daily cleanup comes due while the
\* polling loop runs.
NextStop ==
    \/ StartScheduler
    \/ StopScheduler
    \/ \E w \in 1..MaxThreads : MonTest("sched", w)
    \/ \E w \in 1..MaxThreads : MonCycle("sched", w, CalmSnapshots, MaxFewSamples)
    \/ \E w \in 1..MaxPollers : SchedTestWithin(w, {"cleanup_old_files"}, MaxStopRuns)
    \/ \E w \in 1..MaxPollers : RunJob(w, "cleanup_old_files", MaxStopRuns)

FairWorkers ==
    /\ \A w \in 1..MaxThreads :
          /\ WF_vars(MonTest("sched", w))
          /\ WF_vars(MonCycle("sched", w, CalmSnapshots, MaxFewSamples))
    /\ \A w \in 1..MaxPollers :
          /\ WF_vars(SchedTestWithin(w, {"cleanup_old_files"}, MaxStopRuns))
          /\ WF_vars(RunJob(w, "cleanup_old_files", MaxStopRuns))

SpecStop == Init /\ [][NextStop]_vars /\ FairWorkers

\* Run-now requests for the daily cleanup, their threads running
\* _execute_task side by side.
NextOverlap ==
    \/ RunNow("cleanup_old_files")
    \/ \E r \in 1..MaxRunners : ExecStamp(r)
    \/ \E r \in 1..MaxRunners : ExecCount(r)
    \/ \E r \in 1..MaxRunners : ExecCall(r)
    \/ \E r \in 1..MaxRunners : ExecFail(r)
    \/ Tick

SpecOverlap == Init /\ [][NextOverlap]_vars

\* the alerts of engine e's history for metric m
AlertsFor(e, m) ==
    {i \in 1..Len(alert_history[e]) : alert_history[e][i].metric_name = m}

ResolvedFor(e, m) == {i \in AlertsFor(e, m) : alert_history[e][i].resolved}

\* the values metric m took in the snapshots engine e evaluated
Samples(e, m) == [i \in 1..Len(trace[e]) |-> trace[e][i][m]]

\* C4: threshold evaluation never double-creates: for every tracked metric
\* the active set holds at most one alert that threshold evaluation created.
C4_NoDoubleCreate ==
    \A e \in Engines : \A m \in TrackedMetrics :
        Cardinality({id \in ActiveFor(AM(e), m) :
            alert_history[e][active_alerts[e][id]].origin = "threshold"}) <= 1

\* C4 witness: a second sample over the threshold was evaluated, a second
\* later, while the alert of the first was still active.
C4_Witness ==
    /\ Len(trace["agent"]) >= 2
    /\ trace["agent"][1].cpu_usage > ThCpuUsage
    /\ trace["agent"][2].cpu_usage > ThCpuUsage
    /\ Cardinality(ActiveFor(AM("agent"), "cpu_usage")) = 1
    /\ now > alert_history["agent"][1].timestamp
    /\ last = [op |-> "sample", arg |-> "agent", ret |-> "evaluated"]

\* C5: hysteresis.  From no active alert, the samples T+1, T+1, T-1 of a
\* metric leave exactly one alert created and exactly one resolved for it;
\* and in every step an alert for a metric is created only by a sample over
\* its threshold evaluated with no active alert for it, and resolved only by
\* a sample at or under its threshold.
C5_Scenario ==
    \A m \in {"cpu_usage", "memory_usage"} :
        LET T == alert_thresholds[m]
        IN  Samples("agent", m) = <<T + 1, T + 1, T - 1>>
            => /\ Cardinality(AlertsFor("agent", m)) = 1
               /\ Cardinality(ResolvedFor("agent", m)) = 1
               /\ ActiveFor(AM("agent"), m) = {}

C5_Step ==
    \A m \in TrackedMetrics :
        LET n == Len(trace'["agent"])
        IN  /\ Cardinality(AlertsFor("agent", m)') > Cardinality(AlertsFor("agent", m))
               => /\ n = Len(trace["agent"]) + 1
                  /\ trace'["agent"][n][m] > alert_thresholds[m]
                  /\ ActiveFor(AM("agent"), m) = {}
                  /\ Cardinality(AlertsFor("agent", m)') =
                        Cardinality(AlertsFor("agent", m)) + 1
            /\ Cardinality(ResolvedFor("agent", m)') > Cardinality(ResolvedFor("agent", m))
               => /\ n = Len(trace["agent"]) + 1
                  /\ trace'["agent"][n][m] <= alert_thresholds[m]

C5_Hysteresis == [](C5_Scenario) /\ [][C5_Step]_vars

\* C5 witness: the three samples were evaluated for cpu_usage.
C5_Witness ==
    /\ Samples("agent", "cpu_usage") = <<ThCpuUsage + 1, ThCpuUsage + 1, ThCpuUsage - 1>>
    /\ Cardinality(ResolvedFor("agent", "cpu_usage")) = 1

\* C7: after n successful sampling cycles the history holds the most recent
\* min(n, 1000) snapshots, oldest first, newest last.
C7_HistoryBound ==
    \A e \in Engines :
        LET n == samples_taken[e]
            k == IF n < HistoryCapacity THEN n ELSE HistoryCapacity
        IN  /\ Len(metrics_history[e]) = k
            /\ \A i \in 1..k : metrics_history[e][i] = n - k + i

\* C7 witness: one sample more than the capacity; the first one is gone.
C7_Witness ==
    /\ samples_taken["agent"] = HistoryCapacity + 1
    /\ Len(metrics_history["agent"]) = HistoryCapacity
    /\ metrics_history["agent"][1] = 2
    /\ metrics_history["agent"][HistoryCapacity] = HistoryCapacity + 1

\* C8: every alert threshold evaluation created has the severity of its
\* ratio v/t: critical from 2.0, high from 1.5, medium from 1.2, low under
\* 1.2, each lower bound included.
C8_SeverityMapping ==
    \A e \in Engines : \A i \in 1..Len(alert_history[e]) :
        LET a == alert_history[e][i]
            v == a.current_value
            t == a.threshold_value
        IN  a.origin = "threshold" =>
            /\ v > t /\ t > 0
            /\ a.severity = "critical" <=> v >= 2 * t
            /\ a.severity = "high" <=> (2 * v >= 3 * t /\ v < 2 * t)
            /\ a.severity = "medium" <=> (10 * v >= 12 * t /\ 2 * v < 3 * t)
            /\ a.severity = "low" <=> 10 * v < 12 * t

\* C8 witness: alerts exactly on the 2.0 and on the 1.2 boundary.
C8_Witness ==
    \E i, j \in 1..Len(alert_history["agent"]) :
        LET a == alert_history["agent"][i]
            b == alert_history["agent"][j]
        IN  /\ a.current_value = 2 * a.threshold_value /\ a.severity = "critical"
            /\ 10 * b.current_value = 12 * b.threshold_value /\ b.severity = "medium"

\* C9 (as claimed): cpu_usage samples 50, 95 against the threshold 80 leave
\* an alert of severity medium.
C9_Original ==
    Samples("agent", "cpu_usage") = <<50, 95>>
    => \E i \in AlertsFor("agent", "cpu_usage") :
          alert_history["agent"][i].severity = "medium"

\* C9 (amended): cpu_usage samples 50, 95, 60 against the threshold 80: no
\* alert after the first, one active cpu_usage alert of severity low after
\* the second, and that alert resolved, none active, after the third.
C9_Scenario ==
    LET s == Samples("agent", "cpu_usage")
        h == alert_history["agent"]
        mine == AlertsFor("agent", "cpu_usage")
    IN  /\ s = <<50>> => mine = {}
        /\ s = <<50, 95>> =>
              /\ Cardinality(mine) = 1
              /\ Cardinality(ActiveFor(AM("agent"), "cpu_usage")) = 1
              /\ \A i \in mine : /\ h[i].severity = "low"
                                 /\ ~h[i].resolved
                                 /\ h[i].current_value = 95
                                 /\ h[i].threshold_value = ThCpuUsage
        /\ s = <<50, 95, 60>> =>
              /\ Cardinality(mine) = 1
              /\ ActiveFor(AM("agent"), "cpu_usage") = {}
              /\ \A i \in mine : h[i].severity = "low" /\ h[i].resolved

\* C9 witness: the three samples were evaluated.
C9_Witness ==
    /\ Samples("agent", "cpu_usage") = <<50, 95, 60>>
    /\ Cardinality(ResolvedFor("agent", "cpu_usage")) = 1

\* the workers of engine e that have not left their loop
LiveWorkers(e) == {w \in 1..Len(mon_threads[e]) : mon_threads[e][w] # "done"}

LivePollers == {w \in 1..Len(sched_threads) : sched_threads[w].pc # "done"}

\* C1 (as claimed): the active set of every AlertManager holds at most one
\* alert per metric_name.
C1_Original ==
    \A e \in Engines :
        \A m \in TrackedMetrics \cup {"database_connection"} :
            Cardinality(ActiveFor(AM(e), m)) <= 1

\* a step that is one run of task t by any caller, and one that is a run
\* of t by the polling loop (run_pending takes the entry off its list)
AnyRun(t) ==
    /\ last'.op = "execute_task" /\ last'.arg = t
    /\ t \in DOMAIN scheduled_tasks
    /\ scheduled_tasks'[t].run_count = scheduled_tasks[t].run_count + 1

AutoRun(t) == AnyRun(t) /\ sched_threads' # sched_threads

\* C2 (as claimed): a task whose callable always fails is disabled and its
\* armed entries cleared by the run that records its 5th failure, not by an
\* earlier one, and the polling loop does not invoke it once it has 5
\* failures unless it has been enabled again.
C2_Original ==
    [][\A t \in DOMAIN scheduled_tasks :
          (scheduled_tasks[t].fn = "fails" /\ AutoRun(t))
          => /\ scheduled_tasks[t].error_count < ErrorCeiling \/ scheduled_tasks[t].enabled
             /\ scheduled_tasks'[t].error_count = ErrorCeiling
                   => ~scheduled_tasks'[t].enabled /\ jobs'[t] = 0
             /\ scheduled_tasks'[t].error_count < ErrorCeiling
                   => /\ scheduled_tasks'[t].enabled = scheduled_tasks[t].enabled
                      /\ jobs'[t] = jobs[t]]_vars

\* C3 (as claimed): a task with error_count >= 5 has enabled = false.
C3_Original ==
    \A t \in DOMAIN scheduled_tasks :
        scheduled_tasks[t].error_count >= ErrorCeiling => ~scheduled_tasks[t].enabled

\* C3 (amended): a run that records a failure leaving error_count >= 5
\* leaves the task disabled with no armed entry, and a task with
\* error_count >= 5 that is enabled after a step was enabled before it or
\* was enabled by that step's enable_task.
C3_Breaker ==
    [][\A t \in DOMAIN scheduled_tasks :
          /\ (scheduled_tasks'[t].error_count > scheduled_tasks[t].error_count
              /\ scheduled_tasks'[t].error_count >= ErrorCeiling)
             => ~scheduled_tasks'[t].enabled /\ jobs'[t] = 0
          /\ (scheduled_tasks'[t].error_count >= ErrorCeiling
              /\ scheduled_tasks'[t].enabled)
             => /\ scheduled_tasks'[t].error_count = scheduled_tasks[t].error_count
                /\ \/ scheduled_tasks[t].enabled
                   \/ last'.op = "enable_task" /\ last'.arg = t /\ last'.ret = "True"]_vars

\* C3 witness: the run that recorded the 5th failure has just disabled job1.
C3_Witness ==
    /\ "job1" \in DOMAIN scheduled_tasks
    /\ scheduled_tasks["job1"].error_count = ErrorCeiling
    /\ ~scheduled_tasks["job1"].enabled
    /\ jobs["job1"] = 0
    /\ last = [op |-> "execute_task", arg |-> "job1", ret |-> "raised"]

\* C6: lifecycle controls are idempotent.  A stop of a stopped engine or
\* scheduler changes nothing; a start of a running one changes nothing and
\* starts no thread; a start of a stopped one starts exactly one worker.
C6_Step ==
    /\ (StopMonitoring("agent") /\ ~monitoring_active["agent"]) => UNCHANGED prog_vars
    /\ (StopScheduler /\ ~scheduler_active) => UNCHANGED prog_vars
    /\ (StartMonitoring("agent") /\ monitoring_active["agent"]) => UNCHANGED prog_vars
    /\ (StartScheduler /\ scheduler_active) => UNCHANGED prog_vars
    /\ (StartMonitoring("agent") /\ ~monitoring_active["agent"])
       => /\ Cardinality(LiveWorkers("agent")') = Cardinality(LiveWorkers("agent")) + 1
          /\ monitoring_active'["agent"]
    /\ (StartScheduler /\ ~scheduler_active)
       => /\ Cardinality(LivePollers') = Cardinality(LivePollers) + 1
          /\ Cardinality(LiveWorkers("sched")') = Cardinality(LiveWorkers("sched")) + 1
          /\ scheduler_active' /\ monitoring_active'["sched"]

C6_Idempotent == [][C6_Step]_vars

\* C6 witness: the scheduler was started twice in a row; one polling thread
\* and one worker of its engine are live.
C6_Witness ==
    /\ last = [op |-> "start_scheduler", arg |-> NULL, ret |-> "already_active"]
    /\ Len(sched_threads) = 1 /\ Cardinality(LivePollers) = 1
    /\ Len(mon_threads["sched"]) = 1 /\ Cardinality(LiveWorkers("sched")) = 1

\* C10: with no active alert, one run of connection_check against an
\* unreachable source leaves exactly one active alert in the scheduler's
\* AlertManager: category connection, metric database_connection, value 0,
\* threshold 1, severity critical; the callable returns False.
C10_Step ==
    (AnyRun("connection_check") /\ last'.ret = "False" /\ active_alerts["sched"] = <<>>)
    => /\ Cardinality(DOMAIN active_alerts'["sched"]) = 1
       /\ Len(alert_history'["sched"]) = Len(alert_history["sched"]) + 1
       /\ \A id \in DOMAIN active_alerts'["sched"] :
             LET a == alert_history'["sched"][active_alerts'["sched"][id]]
             IN  /\ active_alerts'["sched"][id] = Len(alert_history'["sched"])
                 /\ a.category = "connection"
                 /\ a.metric_name = "database_connection"
                 /\ a.current_value = 0
                 /\ a.threshold_value = 1
                 /\ a.severity = "critical"
                 /\ ~a.resolved
       /\ scheduled_tasks'["connection_check"].error_count =
             scheduled_tasks["connection_check"].error_count

C10_ConnectionCheck == [][C10_Step]_vars

\* C10 witness: the first run of connection_check returned False and its
\* alert is the only active one.
C10_Witness ==
    /\ last = [op |-> "execute_task", arg |-> "connection_check", ret |-> "False"]
    /\ scheduled_tasks["connection_check"].run_count = 1
    /\ Cardinality(DOMAIN active_alerts["sched"]) = 1
    /\ Len(alert_history["sched"]) = 1

\* the calls of _send_alert_email a step adds to engine e's outbox
NewSends(e) == {i \in 1..Len(outbox'[e]) : i > Len(outbox[e])}

\* C11: alert creation succeeds whatever the notification does.  In a step
\* taken while the configured sink fails, every alert the step creates is in
\* the active set and in the history after it, one failed send is recorded
\* per alert created, and the sampling cycle or task run that created it
\* ends as it would have without the failure.
C11_Step ==
    \A e \in Engines :
        (email_sink = "fails" /\ NewSends(e) # {})
        => /\ \A i \in NewSends(e) :
                 /\ ~outbox'[e][i].delivered
                 /\ outbox'[e][i].id \in DOMAIN active_alerts'[e]
                 /\ alert_history'[e][active_alerts'[e][outbox'[e][i].id]].id = outbox'[e][i].id
                 /\ active_alerts'[e][outbox'[e][i].id] > Len(alert_history[e])
           /\ Len(outbox'[e]) - Len(outbox[e]) = Len(alert_history'[e]) - Len(alert_history[e])
           /\ \/ last'.op = "sample" /\ last'.ret = "evaluated"
              \/ last'.op = "execute_task" /\ last'.ret = "False"
                 /\ scheduled_tasks'[last'.arg].error_count = scheduled_tasks[last'.arg].error_count

C11_CreateSurvivesSend == [][C11_Step]_vars

\* C11 witness: a send has failed and its alert is active.
C11_Witness ==
    \E e \in Engines : \E i \in 1..Len(outbox[e]) :
        /\ ~outbox[e][i].delivered
        /\ outbox[e][i].id \in DOMAIN active_alerts[e]
        /\ email_sink = "fails"

\* C12: resolve_alert(id) on an id of the active set marks that alert
\* resolved, stamps it with the time of the call, removes it from the active
\* set and returns true, every other alert staying as it was; on any other
\* id (never used, or resolved already) it returns false and leaves the
\* active set and the history unchanged.
C12_Step ==
    \A id \in AlertIds("agent") :
        ResolveAlert("agent", id)
        => LET act == active_alerts["agent"]
               hist == alert_history["agent"]
           IN  IF id \in DOMAIN act
               THEN /\ last'.ret = "True"
                    /\ DOMAIN active_alerts'["agent"] = DOMAIN act \ {id}
                    /\ \A k \in DOMAIN act \ {id} : active_alerts'["agent"][k] = act[k]
                    /\ Len(alert_history'["agent"]) = Len(hist)
                    /\ alert_history'["agent"][act[id]].resolved
                    /\ alert_history'["agent"][act[id]].resolved_timestamp = now
                    /\ \A i \in 1..Len(hist) :
                          i # act[id] => alert_history'["agent"][i] = hist[i]
               ELSE /\ last'.ret = "False"
                    /\ active_alerts'["agent"] = act
                    /\ alert_history'["agent"] = hist

C12_Resolve == [][C12_Step]_vars

\* C12 witness: no sample has been at or under a threshold, one alert was
\* created and resolved by a caller, and a second resolve returned false.
C12_Witness ==
    /\ last = [op |-> "resolve_alert", arg |-> "agent", ret |-> "False"]
    /\ Len(trace["agent"]) = 1 /\ trace["agent"][1].cpu_usage = 81
    /\ Len(alert_history["agent"]) = 1
    /\ alert_history["agent"][1].resolved
    /\ active_alerts["agent"] = <<>>

\* C13 (as claimed): enable_task on a registered task leaves it enabled with
\* exactly one armed entry, whether or not it was armed before; disable_task
\* leaves it disabled with none.
C13_Original ==
    [][\A t \in DOMAIN scheduled_tasks :
          /\ (last'.op = "enable_task" /\ last'.arg = t /\ last'.ret = "True")
             => scheduled_tasks'[t].enabled /\ jobs'[t] = 1
          /\ (last'.op = "disable_task" /\ last'.arg = t /\ last'.ret = "True")
             => ~scheduled_tasks'[t].enabled /\ jobs'[t] = 0]_vars

\* C14: add_task with an id already registered returns failure and changes
\* nothing; with a fresh id it returns success, stores the task as given with
\* zeroed accounting, and arms one entry if enabled and none otherwise,
\* every other task and entry staying as it was.
C14_Step ==
    \A t \in TaskIds :
        (last'.op = "add_task" /\ last'.arg = t)
        => IF t \in DOMAIN scheduled_tasks
           THEN last'.ret = "False" /\ UNCHANGED prog_vars
           ELSE /\ last'.ret = "True"
                /\ DOMAIN scheduled_tasks' = DOMAIN scheduled_tasks \cup {t}
                /\ scheduled_tasks'[t].run_count = 0
                /\ scheduled_tasks'[t].error_count = 0
                /\ scheduled_tasks'[t].last_run = NULL
                /\ scheduled_tasks'[t].last_error = NULL
                /\ jobs'[t] = IF scheduled_tasks'[t].enabled THEN 1 ELSE 0
                /\ \A k \in DOMAIN scheduled_tasks : scheduled_tasks'[k] = scheduled_tasks[k]
                /\ \A k \in TaskIds \ {t} : jobs'[k] = jobs[k]

C14_AddTask == [][C14_Step]_vars

\* C14 witness: add_task was refused for job1, which has run and failed and
\* is armed.
C14_Witness ==
    /\ last = [op |-> "add_task", arg |-> "job1", ret |-> "False"]
    /\ "job1" \in DOMAIN scheduled_tasks
    /\ scheduled_tasks["job1"].error_count > 0
    /\ jobs["job1"] = 1

\* C15: enable_task, disable_task and remove_task on an unknown id return
\* false, the toggle and run-now of the control surface return a failure, and
\* none of them changes the registry, the armed entries or any accounting.
C15_Step ==
    \A t \in TaskIds :
        (t \notin DOMAIN scheduled_tasks /\ last'.arg = t)
        => /\ last'.op \in {"disable_task", "enable_task", "remove_task"}
              => last'.ret = "False" /\ UNCHANGED prog_vars
           /\ last'.op \in {"run_task_manually", "toggle_task"}
              => last'.ret = "failure" /\ UNCHANGED prog_vars
           /\ last'.op # "execute_task"

C15_UnknownId == [][C15_Step]_vars

\* C15 witness: job1 is not registered and an operation on its id has just
\* been refused.
C15_Witness ==
    /\ "job1" \notin DOMAIN scheduled_tasks
    /\ last.arg = "job1"
    /\ last.op \in {"disable_task", "enable_task", "run_task_manually",
                     "remove_task", "toggle_task"}
    /\ last.ret \in {"False", "failure"}

\* C16 (as claimed): any two alerts an AlertManager created have distinct
\* ids, and every alert created and not resolved is held by the active set
\* under its id.
C16_Original ==
    \A e \in Engines :
        \A i, j \in 1..Len(alert_history[e]) :
            /\ i # j => alert_history[e][i].id # alert_history[e][j].id
            /\ ~alert_history[e][i].resolved
               => /\ alert_history[e][i].id \in DOMAIN active_alerts[e]
                  /\ active_alerts[e][alert_history[e][i].id] = i

\* C17 (as claimed): when the agent's stop has completed, the scheduler's
\* polling loop is not Running and neither is any monitoring engine.
C17_Original ==
    last.op = "agent_stop"
    => /\ ~scheduler_active
       /\ \A e \in Engines : ~monitoring_active[e]

\* C18: every run of _execute_task stamps last_run and adds exactly 1 to
\* run_count; a callable that returns leaves error_count as it was and
\* last_error null; one that raises adds exactly 1 to error_count and puts
\* the message in last_error; and error_count <= run_count throughout.
C18_Step ==
    \A t \in DOMAIN scheduled_tasks :
        (last'.op = "execute_task" /\ last'.arg = t)
        => /\ t \in DOMAIN scheduled_tasks'
           /\ scheduled_tasks'[t].run_count = scheduled_tasks[t].run_count + 1
           /\ scheduled_tasks'[t].last_run = now
           /\ scheduled_tasks'[t].fn = scheduled_tasks[t].fn
           /\ IF last'.ret = "raised"
              THEN /\ scheduled_tasks'[t].error_count = scheduled_tasks[t].error_count + 1
                   /\ scheduled_tasks'[t].last_error = "error"
              ELSE /\ scheduled_tasks'[t].error_count = scheduled_tasks[t].error_count
                   /\ scheduled_tasks'[t].last_error = NULL
                   /\ scheduled_tasks'[t].enabled = scheduled_tasks[t].enabled

C18_Counts ==
    \A t \in DOMAIN scheduled_tasks :
        scheduled_tasks[t].error_count <= scheduled_tasks[t].run_count

C18_Accounting == [](C18_Counts) /\ [][C18_Step]_vars

\* C18 witness: job1 failed once and then succeeded.
C18_Witness ==
    /\ "job1" \in DOMAIN scheduled_tasks
    /\ last = [op |-> "execute_task", arg |-> "job1", ret |-> "returned"]
    /\ scheduled_tasks["job1"].run_count = 2
    /\ scheduled_tasks["job1"].error_count = 1
    /\ scheduled_tasks["job1"].last_error = NULL

\* C19: a callable that raises in a run of the polling loop leaves the
\* scheduler Running and its thread in the loop, with every other entry of
\* the pass still to run.
C19_Step ==
    \A t \in DOMAIN scheduled_tasks : \A w \in 1..Len(sched_threads) :
        (AutoRun(t) /\ last'.ret = "raised" /\ sched_threads'[w] # sched_threads[w])
        => /\ scheduler_active' = scheduler_active
           /\ Len(sched_threads') = Len(sched_threads)
           /\ sched_threads'[w].pending[t] = sched_threads[w].pending[t] - 1
           /\ \A k \in TaskIds \ {t} :
                 sched_threads'[w].pending[k] = sched_threads[w].pending[k]
           /\ sched_threads'[w].pc =
                 IF sched_threads'[w].pending = NoJobs THEN "test" ELSE "run"

C19_Contained == [][C19_Step]_vars

\* C19 witness: in one pass job1 raised and the connection check ran after
\* it; the scheduler is Running.
C19_Witness ==
    /\ "job1" \in DOMAIN scheduled_tasks
    /\ scheduled_tasks["job1"].fn = "fails"
    /\ scheduled_tasks["job1"].run_count = 1
    /\ scheduled_tasks["job1"].error_count = 1
    /\ scheduled_tasks["connection_check"].run_count = 1
    /\ last.op = "execute_task" /\ last.arg = "connection_check"
    /\ scheduler_active
    /\ Len(sched_threads) = 1 /\ sched_threads[1].pc = "test"

\* the snapshot a sampling step of the agent's engine has just evaluated
Evaluated == trace'["agent"][Len(trace'["agent"])]

\* C20: in a sampling cycle, for every tracked metric whose sample is at or
\* under its threshold, every alert that was active under that metric_name
\* is resolved and out of the active set, whatever its category; every
\* active alert of a metric whose sample is over its threshold keeps its
\* key in the active set and is itself unchanged.
C20_Step ==
    (last'.op = "sample" /\ last'.ret = "evaluated" /\ last'.arg = "agent"
     /\ Len(trace'["agent"]) = Len(trace["agent"]) + 1)
    => \A id \in DOMAIN active_alerts["agent"] :
          LET i == active_alerts["agent"][id]
              m == alert_history["agent"][i].metric_name
          IN  IF Evaluated[m] <= alert_thresholds[m]
              THEN /\ id \notin DOMAIN active_alerts'["agent"]
                   /\ alert_history'["agent"][i].resolved
                   /\ alert_history'["agent"][i].resolved_timestamp = now
              ELSE /\ id \in DOMAIN active_alerts'["agent"]
                   /\ alert_history'["agent"][i] = alert_history["agent"][i]

C20_ResolveByMetric == [][C20_Step]_vars

\* C20 witness: a calm sample has resolved two cpu_usage alerts, one of the
\* engine's category and one of the custom check's.
C20_Witness ==
    /\ last = [op |-> "sample", arg |-> "agent", ret |-> "evaluated"]
    /\ trace["agent"] # <<>>
    /\ trace["agent"][Len(trace["agent"])].cpu_usage <= ThCpuUsage
    /\ \E i, j \in 1..Len(alert_history["agent"]) :
          /\ alert_history["agent"][i].category = "performance"
          /\ alert_history["agent"][j].category = "custom"
          /\ alert_history["agent"][i].metric_name = "cpu_usage"
          /\ alert_history["agent"][j].metric_name = "cpu_usage"
          /\ alert_history["agent"][i].resolved
          /\ alert_history["agent"][j].resolved
          /\ alert_history["agent"][i].resolved_timestamp = alert_history["agent"][j].resolved_timestamp
    /\ ActiveFor(AM("agent"), "cpu_usage") = {}

\* C21 (as claimed): every alert of the active set is in the history and
\* unresolved, and every alert of the history that the active set does not
\* hold is resolved and carries the time of its resolution.
C21_Original ==
    \A e \in Engines :
        /\ \A id \in DOMAIN active_alerts[e] :
              /\ active_alerts[e][id] \in 1..Len(alert_history[e])
              /\ ~alert_history[e][active_alerts[e][id]].resolved
        /\ \A i \in 1..Len(alert_history[e]) :
              (\A id \in DOMAIN active_alerts[e] : active_alerts[e][id] # i)
              => /\ alert_history[e][i].resolved
                 /\ ToString(alert_history[e][i].resolved_timestamp) # ToString(NULL)

\* the month of the clock value t, counted from the start of the clock
month_index(t) == t \div (DayLength * DaysPerMonth)

\* C22: the monthly check of the polling loop executes the task exactly when
\* today is day 1 and the task has never run or its last run fell in a
\* month of another number; a check that executes finds no run, scheduled
\* or manual, earlier in the running month, so that at most one check of a
\* month executes and a manual run earlier on day 1 suppresses it; a check
\* that does not execute changes nothing of the task.
C22_Step ==
    (/\ "job1" \in DOMAIN scheduled_tasks
     /\ sched_threads' # sched_threads
     /\ last'.op \in {"execute_task", "check_monthly_task"}
     /\ last'.arg = "job1")
    => LET task == scheduled_tasks["job1"]
       IN  /\ (last'.op = "execute_task")
              <=> /\ day_of(now) = 1
                  /\ \/ task.run_count = 0
                     \/ month_of(task.last_run) # month_of(now)
           /\ (last'.op = "execute_task")
              => /\ \/ task.run_count = 0
                    \/ month_index(task.last_run) # month_index(now)
                 /\ scheduled_tasks'["job1"].run_count = task.run_count + 1
                 /\ scheduled_tasks'["job1"].last_run = now
           /\ (last'.op = "check_monthly_task")
              => /\ last'.ret = "skipped"
                 /\ UNCHANGED <<scheduled_tasks, jobs, active_alerts, alert_history>>

C22_MonthlyGuard == [][C22_Step]_vars

\* C22 witness: on day 1 of a later month the check has just declined to
\* execute a task that ran in an earlier month and again in this one.
C22_Witness ==
    /\ last = [op |-> "check_monthly_task", arg |-> "job1", ret |-> "skipped"]
    /\ day_of(now) = 1
    /\ month_index(now) >= 1
    /\ "job1" \in DOMAIN scheduled_tasks
    /\ scheduled_tasks["job1"].run_count >= 2
    /\ scheduled_tasks["job1"].last_run = now
    /\ jobs["job1"] >= 1

\* C23: a stop leaves the flags of the scheduler and of its engine cleared;
\* a worker that has read the cleared flag has left its loop for good and
\* starts no further pass; and whenever a flag is cleared, in the end either
\* a start has set it again or no worker of the component is left in its
\* loop.
C23_Step ==
    /\ (last'.op = "stop_scheduler" /\ last' # last)
       => ~scheduler_active' /\ ~monitoring_active'["sched"]
    /\ \A e \in Engines : \A w \in 1..Len(mon_threads[e]) :
          /\ mon_threads[e][w] = "done" => mon_threads'[e][w] = "done"
          /\ (mon_threads[e][w] = "test" /\ ~monitoring_active[e]
              /\ mon_threads'[e][w] # "test") => mon_threads'[e][w] = "done"
    /\ \A w \in 1..Len(sched_threads) :
          /\ sched_threads[w].pc = "done" => sched_threads'[w].pc = "done"
          /\ (sched_threads[w].pc = "test" /\ ~scheduler_active
              /\ sched_threads'[w].pc # "test") => sched_threads'[w].pc = "done"

C23_Terminates ==
    /\ \A e \in Engines :
          [](~monitoring_active[e] => <>(monitoring_active[e] \/ LiveWorkers(e) = {}))
    /\ [](~scheduler_active => <>(scheduler_active \/ LivePollers = {}))

C23_StopEffective == [][C23_Step]_vars /\ C23_Terminates

\* C23 witness: the scheduler is stopped; its polling thread, which ran the
\* cleanup, and the worker of its engine, which took a sample, have both
\* left their loops.
C23_Witness ==
    /\ ~scheduler_active /\ ~monitoring_active["sched"]
    /\ Len(sched_threads) = 1 /\ sched_threads[1].pc = "done"
    /\ Len(mon_threads["sched"]) = 1 /\ mon_threads["sched"][1] = "done"
    /\ scheduled_tasks["cleanup_old_files"].run_count >= 1
    /\ samples_taken["sched"] >= 1
    /\ last.op = "scheduler_loop" /\ last.ret = "exit"

\* C24: a pass of the sampling loop whose collection failed appends nothing
\* to the history, evaluates no snapshot, creates and resolves no alert
\* (neither by a threshold nor by a custom check), sends nothing, and leaves
\* the worker in its loop and the engine's flag as it was.
C24_Step ==
    \A w \in 1..Len(mon_threads["agent"]) :
       (/\ mon_threads["agent"][w] = "cycle"
        /\ mon_threads'["agent"][w] # "cycle"
        /\ last'.op = "sample" /\ last'.arg = "agent" /\ last'.ret = "skipped")
       => /\ metrics_history' = metrics_history
          /\ samples_taken' = samples_taken
          /\ trace' = trace
          /\ active_alerts' = active_alerts
          /\ alert_history' = alert_history
          /\ outbox' = outbox
          /\ custom_checks' = custom_checks
          /\ monitoring_active' = monitoring_active
          /\ mon_threads'["agent"][w] = "test"

C24_FailedCollection == [][C24_Step]_vars

\* C24 witness: a pass has just been skipped in an engine that holds a
\* history, a custom check and an active alert, and keeps running.
C24_Witness ==
    /\ last = [op |-> "sample", arg |-> "agent", ret |-> "skipped"]
    /\ metrics_history["agent"] # <<>>
    /\ custom_checks["agent"] # <<>>
    /\ DOMAIN active_alerts["agent"] # {}
    /\ monitoring_active["agent"]
    /\ LiveWorkers("agent") # {}

\* C25 (as claimed): at most one worker of an engine is in its sampling
\* loop at any time.
C25_Original ==
    \A e \in Engines : Cardinality(LiveWorkers(e)) <= 1

\* C25, the state the claim rules out at its plainest: two workers of one
\* engine are in the body of a pass at once
C25_BothInPass ==
    \E e \in Engines :
        Cardinality({w \in 1..Len(mon_threads[e]) : mon_threads[e][w] = "cycle"}) >= 2

\* C26: no step lowers the error_count of a registered task: a run that
\* succeeds, enable_task, disable_task and every other step leave it as it
\* is, a run that fails adds 1; and a failed run of a task whose count had
\* reached the ceiling before (re-enabled since or not) leaves it disabled
\* with no armed entry.
C26_Step ==
    \A t \in DOMAIN scheduled_tasks \cap DOMAIN scheduled_tasks' :
        LET before == scheduled_tasks[t].error_count
            after == scheduled_tasks'[t].error_count
        IN  /\ after >= before
            /\ after # before => (AnyRun(t) /\ last'.ret = "raised" /\ after = before + 1)
            /\ (AnyRun(t) /\ last'.ret = "raised" /\ before >= ErrorCeiling)
               => /\ ~scheduled_tasks'[t].enabled
                  /\ jobs'[t] = 0

C26_Lifetime == [][C26_Step]_vars

\* C26 witness: a task disabled at the ceiling was enabled again and its
\* next run failed: one more failure counted, disabled again.
C26_Witness ==
    /\ "job1" \in DOMAIN scheduled_tasks
    /\ scheduled_tasks["job1"].error_count = ErrorCeiling + 1
    /\ ~scheduled_tasks["job1"].enabled
    /\ jobs["job1"] = 0
    /\ last = [op |-> "execute_task", arg |-> "job1", ret |-> "raised"]

\* the run-now threads of task t that called the task function, and those
\* whose call raised
Invocations(t) ==
    {r \in 1..Len(runners) : runners[r].task = t /\ runners[r].pc \in {"done", "fail"}}
FailedInvocations(t) ==
    {r \in Invocations(t) : runners[r].outcome = "raised"}

\* C27 (as claimed): when the overlapping runs of a task have all finished,
\* its run_count is the number of calls of the task function and its
\* error_count the number of calls that raised.
C27_Original ==
    (\A r \in 1..Len(runners) : runners[r].pc = "done")
    => /\ scheduled_tasks["cleanup_old_files"].run_count
             = Cardinality(Invocations("cleanup_old_files"))
       /\ scheduled_tasks["cleanup_old_files"].error_count
             = Cardinality(FailedInvocations("cleanup_old_files"))

\* C28: a run of connection_check that finds the source unreachable returns
\* False: it adds 1 to run_count, leaves error_count, enabled and the armed
\* entries as they were and clears last_error; error_count of the task moves
\* only in a run whose reachability call raised, and then by 1.
C28_Step ==
    LET t == "connection_check"
    IN  /\ (AnyRun(t) /\ last'.ret = "False")
           => /\ scheduled_tasks'[t].run_count = scheduled_tasks[t].run_count + 1
              /\ scheduled_tasks'[t].error_count = scheduled_tasks[t].error_count
              /\ scheduled_tasks'[t].last_error = NULL
              /\ scheduled_tasks'[t].enabled = scheduled_tasks[t].enabled
              /\ jobs'[t] = jobs[t]
        /\ scheduled_tasks'[t].error_count # scheduled_tasks[t].error_count
           => /\ AnyRun(t) /\ last'.ret = "raised"
              /\ scheduled_tasks'[t].error_count = scheduled_tasks[t].error_count + 1
              /\ scheduled_tasks'[t].last_error = "error"

C28_Unreachable == [][C28_Step]_vars

\* C28 witness: after a run that raised, the next run found the source
\* unreachable: the one failure stays counted, last_error is cleared, and
\* the task is enabled and armed.
C28_Witness ==
    /\ last = [op |-> "execute_task", arg |-> "connection_check", ret |-> "False"]
    /\ scheduled_tasks["connection_check"].run_count = 2
    /\ scheduled_tasks["connection_check"].error_count = 1
    /\ scheduled_tasks["connection_check"].last_error = NULL
    /\ scheduled_tasks["connection_check"].enabled
    /\ jobs["connection_check"] = 1
    /\ Len(alert_history["sched"]) = 1

\* the alerts of the scheduler's history that the connection check created
ConnectionAlerts ==
    {i \in 1..Len(alert_history["sched"]) :
        alert_history["sched"][i].metric_name = "database_connection"}

\* C29: every alert the connection check created is unresolved and its id
\* is a key of the active set, in every state; no step (a sampling cycle
\* of the scheduler's engine, a connection check of any outcome, the one
\* that finds the source reachable included) changes such an alert or takes
\* its id out of the active set.
C29_Held ==
    \A i \in ConnectionAlerts :
        /\ ~alert_history["sched"][i].resolved
        /\ alert_history["sched"][i].id \in DOMAIN active_alerts["sched"]

C29_Step ==
    \A i \in ConnectionAlerts :
        /\ i <= Len(alert_history'["sched"])
        /\ alert_history'["sched"][i] = alert_history["sched"][i]
        /\ alert_history["sched"][i].id \in DOMAIN active_alerts'["sched"]

get_alerts_data == DOMAIN active_alerts["agent"]

\* C30 (as claimed): every alert the scheduler's connection check raised
\* and nobody resolved is among the active alerts the control surface
\* reads.
C30_Original ==
    \A i \in ConnectionAlerts :
        ~alert_history["sched"][i].resolved
        => alert_history["sched"][i].id \in get_alerts_data

====
